---- MODULE Spec2Model ----
(***************************************************************************)
(* SecureLens client-side state: the analysis session of App.tsx (current  *)
(* result, in-flight flag, error slot, history), the conversation state of *)
(* ChatWidget.tsx (turns, in-flight flag) and the sign-in state of         *)
(* LoginModal.tsx with the two key-value stores.                           *)
(*                                                                         *)
(* JavaScript null/undefined is the empty sequence Null and a present      *)
(* value v is the one-element sequence <<v>>.  A text is a sequence of     *)
(* string pieces (single characters for typed text).  An AnalysisResult    *)
(* carries a field ref that stands for the identity of the JS object, the  *)
(* thing === and the dependency list of useEffect compare.                 *)
(***************************************************************************)
EXTENDS Integers, Sequences, FiniteSets, TLC

VARIABLES result, isAnalyzing, error, history, user, isLoginOpen,
          messages, isLoading,
          analyzeCalls, chatCalls, now, nextRef,
          isLogin, loading, rememberMe, formData, loginError,
          googleCallback, loginTimers, localStore, sessionStore,
          lastOp, historyCut

appVars   == <<result, isAnalyzing, error, history, analyzeCalls, nextRef>>
chatVars  == <<messages, isLoading, chatCalls>>
authVars  == <<user, isLoginOpen, isLogin, loading, rememberMe, formData,
               loginError, googleCallback, loginTimers, localStore,
               sessionStore>>
vars      == <<appVars, chatVars, authVars, now, lastOp, historyCut>>

\* ------------------------------------------------------------------ bounds
MaxClock    == 1    \* the clock runs over 0..MaxClock
MaxAnalyses == 2    \* gateway analysis calls that succeed in one page load
MaxTurns    == 5    \* turns a conversation may hold before sends stop
MaxCalls    == 2    \* calls that may be outstanding on one surface
MaxTimers   == 2    \* sign-in timers that may be pending

\* ------------------------------------------------------------- optionals
Null      == <<>>
Some(v)   == <<v>>
IsSome(o) == o # Null
Get(o)    == o[1]

\* ------------------------------------------------------------------ texts
\* the characters String.prototype.trim strips, as far as they are typed here
IsSpace(c) == c \in {" ", "\t", "\n"}

RECURSIVE TrimStart(_)
TrimStart(t) ==
  IF t # <<>> /\ IsSpace(Head(t)) THEN TrimStart(Tail(t)) ELSE t

RECURSIVE TrimEnd(_)
TrimEnd(t) ==
  IF t # <<>> /\ IsSpace(t[Len(t)]) THEN TrimEnd(SubSeq(t, 1, Len(t) - 1)) ELSE t

\* String.prototype.trim
Trim(t) == TrimEnd(TrimStart(t))

\* String.prototype.substring(0, n)
Substring(t, n) == SubSeq(t, 1, IF n < Len(t) THEN n ELSE Len(t))

SnippetLimit == 50

\* the snippet of a history item
Snippet(text) ==
  IF text # <<>>
    THEN IF Len(text) > SnippetLimit
           THEN Substring(text, SnippetLimit) \o <<"...">>
           ELSE text
    ELSE <<"Image Analysis">>

AnalysisFailedText == <<"Analysis failed. Please try again later or check your connection.">>
FallbackText       == <<"Issue detected. Please rephrase your question.">>
GenericGreeting    == <<"Hi! I'm SecureLens AI. Ask me anything about online safety or scam detection.">>

\* the text of the greeting turn for a grounding result
GreetingText(analysisResult) ==
  IF IsSome(analysisResult)
    THEN << "I've analyzed this content (Risk: ", Get(analysisResult).riskLevel,
            "). Found ", ToString(Len(Get(analysisResult).redFlags)),
            " red flags. How can I help?" >>
    ELSE GenericGreeting

Message(role, text) ==
  [role |-> role, text |-> text, liked |-> "undefined", disliked |-> "undefined"]

\* an effect that leaves the turns alone when the result goes away
ChatResetEffectOnlyForResult(oldResult, newResult, msgs) ==
  IF newResult # oldResult /\ IsSome(newResult)
    THEN << Message("model", GreetingText(newResult)) >>
    ELSE msgs

\* useEffect(..., [analysisResult]) of ChatWidget: runs after a render in
\* which the analysisResult prop is a different reference than before
ChatResetEffect(oldResult, newResult, msgs) ==
  IF newResult # oldResult
    THEN << Message("model", GreetingText(newResult)) >>
    ELSE msgs

\* ---------------------------------------------------------- input domains
LongText  == [i \in 1..(SnippetLimit + 1) |-> "x"]
ShortText == <<"h", "i">>

\* what the analyzer form can submit: text only, or an image without text
AnalyzeInputs ==
  { [text |-> ShortText, image |-> Null],
    [text |-> LongText,  image |-> Null],
    [text |-> <<>>,      image |-> Some("png")] }

\* what the gateway can answer to an analysis
GatewayResults ==
  { [riskLevel |-> "Safe",      redFlags |-> <<>>],
    [riskLevel |-> "High Risk", redFlags |-> <<"a", "b", "c">>] }

\* what can be sent in the chat
ChatInputs  == { <<>>, <<" ">>, <<"\t", "q", " ">>, <<"q">> }
ChatReplies == { <<"ok">> }

\* ids a delete may be asked for: every clock reading and one id never issued
DeleteIds == { ToString(t) : t \in 0..MaxClock } \cup { "missing" }

\* ------------------------------------------------------------------ ghost
\* lastOp names the handler that ran last, the text or id it was given and
\* whether it took the request up; historyCut tells whether a delete or a
\* clear has run since the page was loaded.  No action reads either.
Op(name, arg, ok) == [op |-> name, arg |-> arg, ok |-> ok]

\* ------------------------------------------------------------------- Init
InitialFormData == [name |-> <<>>, email |-> <<>>, confirmEmail |-> <<>>]

\* the state once App, ChatWidget and LoginModal are mounted with empty
\* stores: every useState initial value, and the greeting the mount effect
\* of ChatWidget sets for analysisResult = null
Init ==
  /\ result = Null
  /\ isAnalyzing = FALSE
  /\ error = Null
  /\ history = <<>>
  /\ user = Null
  /\ isLoginOpen = FALSE
  /\ messages = << Message("model", GreetingText(Null)) >>
  /\ isLoading = FALSE
  /\ analyzeCalls = <<>>
  /\ chatCalls = <<>>
  /\ now = 0
  /\ nextRef = 1
  /\ isLogin = TRUE
  /\ loading = FALSE
  /\ rememberMe = TRUE
  /\ formData = InitialFormData
  /\ loginError = Null
  /\ googleCallback = Null
  /\ loginTimers = <<>>
  /\ localStore = Null
  /\ sessionStore = Null
  /\ lastOp = Op("mount", <<>>, TRUE)
  /\ historyCut = FALSE

RemoveAt(s, i) == SubSeq(s, 1, i - 1) \o SubSeq(s, i + 1, Len(s))

\* ------------------------------------------------------------------ clock
\* a millisecond passes
Tick ==
  /\ now < MaxClock
  /\ now' = now + 1
  /\ lastOp' = Op("tick", <<>>, TRUE)
  /\ UNCHANGED <<appVars, chatVars, authVars, historyCut>>

\* ------------------------------------------------------- analysis session
\* a form that does not look at isAnalyzing
AnalyzerFormAlwaysEnabled == TRUE

\* a form that takes a second submission while one analysis is waiting
AnalyzerFormEnabledWhileOneWaits == Len(analyzeCalls) <= 1

\* the submit control of AnalyzerForm, which is handed isAnalyzing
AnalyzerFormEnabled == ~isAnalyzing

\* handleAnalyze up to its await: the flags and the gateway call
handleAnalyze(text, imageBase64) ==
  /\ isAnalyzing' = TRUE
  /\ error' = Null
  /\ analyzeCalls' = Append(analyzeCalls, [text |-> text, image |-> imageBase64])
  /\ UNCHANGED <<result, history, nextRef>>

\* the user submits the analyzer form, shown while there is no result
SubmitAnalyzerForm ==
  \E in \in AnalyzeInputs :
    /\ result = Null
    /\ nextRef + Len(analyzeCalls) <= MaxAnalyses
    /\ Len(analyzeCalls) < MaxCalls
    /\ IF AnalyzerFormEnabled
         THEN /\ handleAnalyze(in.text, in.image)
              /\ lastOp' = Op("handleAnalyze", <<>>, TRUE)
         ELSE /\ UNCHANGED appVars
              /\ lastOp' = Op("handleAnalyze", <<>>, FALSE)
    /\ UNCHANGED <<chatVars, authVars, now, historyCut>>

\* a new item put last instead of first
AppendItem(newItem, prev) == prev \o <<newItem>>

\* setHistory(prev => [newItem, ...prev])
PrependItem(newItem, prev) == <<newItem>> \o prev

\* the history item of a successful analysis; clock is what Date.now() reads
\* (the two readings are taken in one synchronous block, so in one millisecond)
NewHistoryItem(text, data, clock) ==
  [ id        |-> ToString(clock),
    timestamp |-> clock,
    snippet   |-> Snippet(text),
    result    |-> data ]

\* analyzeContent resolves: the rest of the try block, then finally
AnalyzeFulfilled ==
  \E i \in 1..Len(analyzeCalls), answer \in GatewayResults :
    LET data == [ref |-> nextRef, riskLevel |-> answer.riskLevel,
                 redFlags |-> answer.redFlags]
        newItem == NewHistoryItem(analyzeCalls[i].text, data, now)
    IN /\ result' = Some(data)
       /\ history' = PrependItem(newItem, history)
       /\ isAnalyzing' = FALSE
       /\ analyzeCalls' = RemoveAt(analyzeCalls, i)
       /\ nextRef' = nextRef + 1
       /\ messages' = ChatResetEffect(result, result', messages)
       /\ lastOp' = Op("analyzeFulfilled", <<>>, TRUE)
       /\ UNCHANGED <<error, isLoading, chatCalls, authVars, now, historyCut>>

\* a catch block that also drops the result on display
AnalyzeCatchDropsResult(prevResult, prevHistory) ==
  /\ error' = Some(AnalysisFailedText)
  /\ result' = Null
  /\ history' = prevHistory

\* the catch block of handleAnalyze
AnalyzeCatch(prevResult, prevHistory) ==
  /\ error' = Some(AnalysisFailedText)
  /\ result' = prevResult
  /\ history' = prevHistory

\* a rejection handled without the finally block
AnalyzeRejectedWithoutFinally ==
  \E i \in 1..Len(analyzeCalls) :
    /\ AnalyzeCatch(result, history)
    /\ analyzeCalls' = RemoveAt(analyzeCalls, i)
    /\ messages' = ChatResetEffect(result, result', messages)
    /\ lastOp' = Op("analyzeRejected", <<>>, TRUE)
    /\ UNCHANGED <<isAnalyzing, nextRef, isLoading, chatCalls, authVars, now,
                   historyCut>>

\* analyzeContent rejects: catch, then finally
AnalyzeRejected ==
  \E i \in 1..Len(analyzeCalls) :
    /\ AnalyzeCatch(result, history)
    /\ isAnalyzing' = FALSE
    /\ analyzeCalls' = RemoveAt(analyzeCalls, i)
    /\ messages' = ChatResetEffect(result, result', messages)
    /\ lastOp' = Op("analyzeRejected", <<>>, TRUE)
    /\ UNCHANGED <<nextRef, isLoading, chatCalls, authVars, now, historyCut>>

\* a reset that empties the history as well
resetAnalysisClearsHistory ==
  /\ result' = Null
  /\ error' = Null
  /\ history' = <<>>
  /\ messages' = ChatResetEffect(result, result', messages)
  /\ lastOp' = Op("resetAnalysis", <<>>, TRUE)
  /\ UNCHANGED <<isAnalyzing, analyzeCalls, nextRef, isLoading,
                 chatCalls, authVars, now, historyCut>>

\* the logo and the onReset of the report: setResult(null), setError(null)
resetAnalysis ==
  /\ result' = Null
  /\ error' = Null
  /\ messages' = ChatResetEffect(result, result', messages)
  /\ lastOp' = Op("resetAnalysis", <<>>, TRUE)
  /\ UNCHANGED <<isAnalyzing, history, analyzeCalls, nextRef, isLoading,
                 chatCalls, authVars, now, historyCut>>

\* the user clicks a history row
loadHistoryItem ==
  \E i \in 1..Len(history) :
    /\ result' = Some(history[i].result)
    /\ error' = Null
    /\ messages' = ChatResetEffect(result, result', messages)
    /\ lastOp' = Op("loadHistoryItem", <<>>, TRUE)
    /\ UNCHANGED <<isAnalyzing, history, analyzeCalls, nextRef, isLoading,
                   chatCalls, authVars, now, historyCut>>

\* prev.filter(item => item.id !== id)
RECURSIVE FilterOutId(_, _)
FilterOutId(prev, id) ==
  IF prev = <<>> THEN <<>>
  ELSE IF Head(prev).id # id
         THEN <<Head(prev)>> \o FilterOutId(Tail(prev), id)
         ELSE FilterOutId(Tail(prev), id)

deleteHistoryItem ==
  \E id \in DeleteIds :
    /\ history' = FilterOutId(history, id)
    /\ lastOp' = Op("deleteHistoryItem", <<id>>, TRUE)
    /\ historyCut' = TRUE
    /\ UNCHANGED <<result, isAnalyzing, error, analyzeCalls, nextRef,
                   chatVars, authVars, now>>

\* a Clear button that closes the displayed report as well
clearHistoryClosesReport ==
  /\ Len(history) > 0
  /\ history' = <<>>
  /\ result' = Null
  /\ lastOp' = Op("clearHistory", <<>>, TRUE)
  /\ historyCut' = TRUE
  /\ UNCHANGED <<isAnalyzing, error, analyzeCalls, nextRef,
                 chatVars, authVars, now>>

\* the Clear button, shown while the history is not empty
clearHistory ==
  /\ Len(history) > 0
  /\ history' = <<>>
  /\ lastOp' = Op("clearHistory", <<>>, TRUE)
  /\ historyCut' = TRUE
  /\ UNCHANGED <<result, isAnalyzing, error, analyzeCalls, nextRef,
                 chatVars, authVars, now>>

\* ----------------------------------------------------------- conversation
\* a history that leaves the greeting out
ConversationHistoryWithoutGreeting(msgs) ==
  [i \in 1..(Len(msgs) - 1) |-> [role |-> msgs[i + 1].role, text |-> msgs[i + 1].text]]

\* messages.map(m => ({ role: m.role, text: m.text }))
ConversationHistory(msgs) ==
  [i \in 1..Len(msgs) |-> [role |-> msgs[i].role, text |-> msgs[i].text]]

\* a guard that forgets the in-flight flag
SendAcceptedWhileLoading(textToSend) == Trim(textToSend) # <<>>

\* a guard that tests the text without trimming it
SendAcceptedUntrimmed(textToSend) == textToSend # <<>> /\ ~isLoading

\* the guard of handleSend: the negation of !textToSend.trim() || isLoading
SendAccepted(textToSend) == Trim(textToSend) # <<>> /\ ~isLoading

\* handleSend up to its await; the text comes from the input field or a chip
handleSend ==
  \E textToSend \in ChatInputs :
    /\ Len(chatCalls) < MaxCalls
    /\ IF SendAccepted(textToSend)
         THEN LET userMessage == Trim(textToSend) IN
              /\ Len(messages) + 2 <= MaxTurns
              /\ isLoading' = TRUE
              /\ messages' = Append(messages, Message("user", userMessage))
              /\ chatCalls' = Append(chatCalls,
                                [history |-> ConversationHistory(messages),
                                 text    |-> userMessage,
                                 context |-> result])
              /\ lastOp' = Op("handleSend", textToSend, TRUE)
         ELSE /\ UNCHANGED chatVars
              /\ lastOp' = Op("handleSend", textToSend, FALSE)
    /\ UNCHANGED <<appVars, authVars, now, historyCut>>

\* sendChatResponse resolves: the model turn, then finally
ChatFulfilled ==
  \E i \in 1..Len(chatCalls), responseText \in ChatReplies :
    /\ messages' = Append(messages, Message("model", responseText))
    /\ isLoading' = FALSE
    /\ chatCalls' = RemoveAt(chatCalls, i)
    /\ lastOp' = Op("chatFulfilled", <<>>, TRUE)
    /\ UNCHANGED <<appVars, authVars, now, historyCut>>

\* a catch block that takes the optimistic user turn back
ChatCatchRollsBack(prev) ==
  Append(SubSeq(prev, 1, Len(prev) - 1), Message("model", FallbackText))

\* a catch block that adds no turn
ChatCatchSilent(prev) == prev

\* the catch block of handleSend
ChatCatch(prev) == Append(prev, Message("model", FallbackText))

\* sendChatResponse rejects: catch, then finally
ChatRejected ==
  \E i \in 1..Len(chatCalls) :
    /\ messages' = ChatCatch(messages)
    /\ isLoading' = FALSE
    /\ chatCalls' = RemoveAt(chatCalls, i)
    /\ lastOp' = Op("chatRejected", <<>>, TRUE)
    /\ UNCHANGED <<appVars, authVars, now, historyCut>>

\* a flag of a turn is undefined, true or false; !flag is true unless the
\* flag is true
Truthy(flag) == flag = "true"
Not(flag)    == IF Truthy(flag) THEN "false" ELSE "true"

FeedbackTypes == {"like", "dislike"}

\* a feedback that leaves the opposite flag as it is
FeedbackKeepsOpposite(msg, type) ==
  IF type = "like" THEN [msg EXCEPT !.liked = Not(msg.liked)]
                   ELSE [msg EXCEPT !.disliked = Not(msg.disliked)]

\* a feedback that sets the chosen flag instead of inverting it
FeedbackSets(msg, type) ==
  [msg EXCEPT !.liked    = IF type = "like" THEN "true" ELSE "false",
              !.disliked = IF type = "dislike" THEN "true" ELSE "false"]

\* the object handleFeedback puts in the place of messages[index]
Feedback(msg, type) ==
  [msg EXCEPT !.liked    = IF type = "like" THEN Not(msg.liked) ELSE "false",
              !.disliked = IF type = "dislike" THEN Not(msg.disliked) ELSE "false"]

\* the thumbs of a model turn, the greeting included
handleFeedback ==
  \E index \in 1..Len(messages), type \in FeedbackTypes :
    /\ messages[index].role = "model"
    /\ messages' = [i \in 1..Len(messages) |->
                      IF i = index THEN Feedback(messages[i], type)
                                   ELSE messages[i]]
    /\ lastOp' = Op("handleFeedback", <<type>>, TRUE)
    /\ UNCHANGED <<isLoading, chatCalls, appVars, authVars, now, historyCut>>

\* the conversation and its thumbs, without a change of the current result
FeedbackNext ==
  \/ handleSend
  \/ ChatFulfilled
  \/ ChatRejected
  \/ handleFeedback

SpecFeedback == Init /\ [][FeedbackNext]_vars

\* the analysis session: the conversation only follows the current result
AnalysisNext ==
  \/ Tick
  \/ SubmitAnalyzerForm
  \/ AnalyzeFulfilled
  \/ AnalyzeRejected
  \/ resetAnalysis
  \/ loadHistoryItem
  \/ deleteHistoryItem
  \/ clearHistory

SpecAnalysis == Init /\ [][AnalysisNext]_vars

\* the conversation, with every operation that changes the current result
ChatNext ==
  \/ SubmitAnalyzerForm
  \/ AnalyzeFulfilled
  \/ AnalyzeRejected
  \/ resetAnalysis
  \/ loadHistoryItem
  \/ handleSend
  \/ ChatFulfilled
  \/ ChatRejected

SpecChat == Init /\ [][ChatNext]_vars

\* the promise of sendChatResponse settles: the await of handleSend goes on
\* into the rest of try or into catch, and then into finally
ChatCallReturns == ChatFulfilled \/ ChatRejected

\* the conversation next to a report that comes and goes
TurnsNext ==
  \/ SubmitAnalyzerForm
  \/ AnalyzeFulfilled
  \/ resetAnalysis
  \/ handleSend
  \/ ChatFulfilled
  \/ ChatRejected

\* the conversation when every gateway call of the chat returns
SpecTurnsFair == Init /\ [][TurnsNext]_vars /\ WF_vars(ChatCallReturns)

\* ----------------------------------------------------------------- sign-in
LowerCase == << "a", "b", "c", "d", "e", "f", "g", "h", "i", "j", "k", "l", "m",
                "n", "o", "p", "q", "r", "s", "t", "u", "v", "w", "x", "y", "z" >>
UpperCase == << "A", "B", "C", "D", "E", "F", "G", "H", "I", "J", "K", "L", "M",
                "N", "O", "P", "Q", "R", "S", "T", "U", "V", "W", "X", "Y", "Z" >>

\* String.prototype.toUpperCase on one character
ToUpperCase(c) ==
  IF \E i \in 1..Len(LowerCase) : LowerCase[i] = c
    THEN UpperCase[CHOOSE i \in 1..Len(LowerCase) : LowerCase[i] = c]
    ELSE c

\* name.charAt(0).toUpperCase() + name.slice(1)
Capitalize(name) ==
  IF name = <<>> THEN <<>> ELSE <<ToUpperCase(Head(name))>> \o Tail(name)

\* email.split('@')[0]
RECURSIVE BeforeAt(_)
BeforeAt(email) ==
  IF email = <<>> \/ Head(email) = "@" THEN <<>>
  ELSE <<Head(email)>> \o BeforeAt(Tail(email))

\* encodeURIComponent on one character of the alphabet used here
EncodeChar(c) ==
  CASE c = "@" -> "%40"
    [] c = " " -> "%20"
    [] OTHER   -> c

EncodeURIComponent(t) == [i \in 1..Len(t) |-> EncodeChar(t[i])]

\* a||b on strings: the empty string is falsy
OrElse(a, b) == IF a # <<>> THEN a ELSE b

\* the profile the password form builds in its timer callback; closure holds
\* what the callback reads of the render it was created in
FormProfile(closure, clock) ==
  LET name == IF closure.isLogin
                THEN OrElse(closure.name, BeforeAt(closure.email))
                ELSE closure.name
  IN [ name       |-> Some(Capitalize(name)),
       email      |-> Some(closure.email),
       avatar     |-> Some(<<"https://ui-avatars.com/api/?name=">>
                            \o EncodeURIComponent(name)
                            \o <<"&background=2563eb&color=fff">>),
       joinedDate |-> clock ]

\* the profile built from a decoded credential payload
GoogleProfile(payload, clock) ==
  [ name       |-> payload.name,
    email      |-> payload.email,
    avatar     |-> payload.picture,
    joinedDate |-> clock ]

\* JSON.stringify of a profile and JSON.parse of a stored text: a text is
\* either the JSON of a value or something JSON.parse throws on
JSONstringify(v) == [json |-> TRUE, value |-> Some(v)]
JSONparse(text)  == IF text.json THEN text.value ELSE Null
ParseThrows(text) == ~text.json

\* a credential is its dot-separated segments; a segment either is the
\* base64url of a text or makes atob throw
Segment(b64, text) == [base64 |-> b64, text |-> text]

GooglePayload ==
  [ name    |-> Some(<<"E", "v", "e">>),
    email   |-> Some(<<"e", "@", "x">>),
    picture |-> Some(<<"https://pic/e">>) ]

\* the first segment of a token is the JSON of a header, an object without
\* name, email or picture
TokenHeader == [name |-> Null, email |-> Null, picture |-> Null]

HeaderSegment == Segment(TRUE, JSONstringify(TokenHeader))
BrokenText    == [json |-> FALSE, value |-> Null]

CredentialKinds == {"good", "nosegment", "badbase64", "badjson"}

\* a well-formed token, one without a second segment, one whose second
\* segment is no base64, one whose second segment decodes to no JSON
Credential(kind) ==
  CASE kind = "good"      -> << HeaderSegment,
                                Segment(TRUE, JSONstringify(GooglePayload)),
                                Segment(FALSE, BrokenText) >>
    [] kind = "nosegment" -> << HeaderSegment >>
    [] kind = "badbase64" -> << HeaderSegment, Segment(FALSE, BrokenText) >>
    [] kind = "badjson"   -> << HeaderSegment, Segment(TRUE, BrokenText) >>

Credentials == { Credential(kind) : kind \in CredentialKinds }

\* a decode that reads the first segment instead of the second
DecodeCredentialFirstSegment(credential) ==
  IF Len(credential) < 1 THEN Null
  ELSE IF ~credential[1].base64 THEN Null
  ELSE IF ~credential[1].text.json THEN Null
  ELSE credential[1].text.value

\* the try block of handleGoogleResponse up to JSON.parse: Null when
\* split('.')[1] is undefined, atob throws or JSON.parse throws
DecodeCredential(credential) ==
  IF Len(credential) < 2 THEN Null
  ELSE IF ~credential[2].base64 THEN Null
  ELSE IF ParseThrows(credential[2].text) THEN Null
  ELSE JSONparse(credential[2].text)

\* if (rememberMe) localStorage.setItem(...) else sessionStorage.setItem(...)
StoreProfile(remember, newUser) ==
  IF remember
    THEN /\ localStore' = Some(JSONstringify(newUser))
         /\ UNCHANGED sessionStore
    ELSE /\ sessionStore' = Some(JSONstringify(newUser))
         /\ UNCHANGED localStore

\* useEffect(..., [isOpen, isLogin]) of LoginModal: while the modal is open
\* the Google callback is the handleGoogleResponse of the render the effect
\* ran in, with that render's rememberMe
GoogleInitEffect(open, callback) ==
  IF open THEN Some([rememberMe |-> rememberMe]) ELSE callback

\* what is typed into the name, email and confirm-email fields
FormNames     == { <<"b", "o">> }
FormEmails    == { <<"a", "@", "x">> }
ConfirmEmails == { <<"a", "@", "x">>, <<"b", "@", "x">> }

\* the Login button of the header, shown while no user is signed in
OpenLogin ==
  /\ user = Null
  /\ ~isLoginOpen
  /\ isLoginOpen' = TRUE
  /\ googleCallback' = GoogleInitEffect(TRUE, googleCallback)
  /\ lastOp' = Op("openLogin", <<>>, TRUE)
  /\ UNCHANGED <<user, isLogin, loading, rememberMe, formData, loginError,
                 loginTimers, localStore, sessionStore, appVars, chatVars, now, historyCut>>

\* the backdrop or the X button of the modal
CloseLogin ==
  /\ isLoginOpen
  /\ isLoginOpen' = FALSE
  /\ lastOp' = Op("closeLogin", <<>>, TRUE)
  /\ UNCHANGED <<user, isLogin, loading, rememberMe, formData, loginError,
                 googleCallback, loginTimers, localStore, sessionStore,
                 appVars, chatVars, now, historyCut>>

\* the "Sign up" / "Log in" switch
ToggleMode ==
  /\ isLoginOpen
  /\ isLogin' = ~isLogin
  /\ loginError' = Null
  /\ googleCallback' = GoogleInitEffect(TRUE, googleCallback)
  /\ lastOp' = Op("toggleMode", <<>>, TRUE)
  /\ UNCHANGED <<user, isLoginOpen, loading, rememberMe, formData,
                 loginTimers, localStore, sessionStore, appVars, chatVars, now, historyCut>>

\* the "Remember me" checkbox
ToggleRemember ==
  /\ isLoginOpen
  /\ rememberMe' = ~rememberMe
  /\ lastOp' = Op("toggleRemember", <<>>, TRUE)
  /\ UNCHANGED <<user, isLoginOpen, isLogin, loading, formData, loginError,
                 googleCallback, loginTimers, localStore, sessionStore,
                 appVars, chatVars, now, historyCut>>

\* typing into the fields; name and confirmEmail exist in sign-up mode only
EditForm ==
  /\ isLoginOpen
  /\ \/ \E e \in FormEmails : formData' = [formData EXCEPT !.email = e]
     \/ /\ ~isLogin
        /\ \E e \in ConfirmEmails : formData' = [formData EXCEPT !.confirmEmail = e]
     \/ /\ ~isLogin
        /\ \E n \in FormNames : formData' = [formData EXCEPT !.name = n]
  /\ lastOp' = Op("editForm", <<>>, TRUE)
  /\ UNCHANGED <<user, isLoginOpen, isLogin, loading, rememberMe, loginError,
                 googleCallback, loginTimers, localStore, sessionStore,
                 appVars, chatVars, now, historyCut>>

\* the browser refuses to submit while a required field is empty
RequiredFilled ==
  /\ formData.email # <<>>
  /\ ~isLogin => (formData.name # <<>> /\ formData.confirmEmail # <<>>)

\* the sign-up check of handleSubmit
\* a comparison that lets every confirmation pass
EmailsMatchAlways(data) == TRUE

EmailsMatch(data) == data.email = data.confirmEmail

\* the state of the "Remember me" checkbox, as recorded with a login
RememberTag(remember) == IF remember THEN "remember" ELSE "session"

\* handleSubmit of the password form; the button is disabled while loading
handleSubmit ==
  /\ isLoginOpen
  /\ ~loading
  /\ RequiredFilled
  /\ Len(loginTimers) < MaxTimers
  /\ IF ~isLogin /\ ~EmailsMatch(formData)
       THEN /\ loginError' = Some("Emails do not match.")
            /\ lastOp' = Op("handleSubmit", <<>>, FALSE)
            /\ UNCHANGED <<loading, loginTimers>>
       ELSE /\ loginError' = Null
            /\ loading' = TRUE
            /\ loginTimers' = Append(loginTimers,
                                [isLogin |-> isLogin, name |-> formData.name,
                                 email |-> formData.email,
                                 rememberMe |-> rememberMe])
            /\ lastOp' = Op("handleSubmit", <<>>, TRUE)
  /\ UNCHANGED <<user, isLoginOpen, isLogin, rememberMe, formData,
                 googleCallback, localStore, sessionStore, appVars, chatVars, now, historyCut>>

\* the setTimeout callback of handleSubmit, 1200 ms later
LoginTimerFires ==
  \E i \in 1..Len(loginTimers) :
    LET newUser == FormProfile(loginTimers[i], now) IN
    /\ StoreProfile(loginTimers[i].rememberMe, newUser)
    /\ user' = Some(newUser)
    /\ loading' = FALSE
    /\ isLoginOpen' = FALSE
    /\ loginTimers' = RemoveAt(loginTimers, i)
    /\ lastOp' = Op("loginTimer", <<RememberTag(loginTimers[i].rememberMe)>>, TRUE)
    /\ UNCHANGED <<isLogin, rememberMe, formData, loginError, googleCallback,
                   appVars, chatVars, now, historyCut>>

\* the identity provider calls back with a credential; its button is in the
\* open modal
handleGoogleResponse ==
  \E kind \in CredentialKinds :
    LET credential == Credential(kind)
        payload == DecodeCredential(credential) IN
    /\ isLoginOpen
    /\ IsSome(googleCallback)
    /\ IF IsSome(payload)
         THEN LET newUser == GoogleProfile(Get(payload), now) IN
              /\ StoreProfile(Get(googleCallback).rememberMe, newUser)
              /\ user' = Some(newUser)
              /\ loginError' = Null
              /\ loading' = FALSE
              /\ isLoginOpen' = FALSE
              /\ lastOp' = Op("handleGoogleResponse",
                               <<kind, RememberTag(rememberMe)>>, TRUE)
         ELSE /\ loginError' = Some("Google authentication failed. Please try again.")
              /\ loading' = FALSE
              /\ lastOp' = Op("handleGoogleResponse", <<kind>>, FALSE)
              /\ UNCHANGED <<user, isLoginOpen, localStore, sessionStore>>
    /\ UNCHANGED <<isLogin, rememberMe, formData, googleCallback, loginTimers,
                   appVars, chatVars, now, historyCut>>

\* a logout that forgets the session-scoped store
LogoutEffectKeepsSession(u, local, session) ==
  [user |-> Null, local |-> Null, session |-> session]

\* setUser(null) and the two removeItem calls of handleLogout, as a function
\* of the user and the contents of the two stores
LogoutEffect(u, local, session) ==
  [user |-> Null, local |-> Null, session |-> Null]

\* the Sign Out entry of the profile dropdown, shown while a user is signed in
handleLogout ==
  /\ IsSome(user)
  /\ user' = LogoutEffect(user, localStore, sessionStore).user
  /\ localStore' = LogoutEffect(user, localStore, sessionStore).local
  /\ sessionStore' = LogoutEffect(user, localStore, sessionStore).session
  /\ lastOp' = Op("handleLogout", <<>>, TRUE)
  /\ UNCHANGED <<isLoginOpen, isLogin, loading, rememberMe, formData,
                 loginError, googleCallback, loginTimers, appVars, chatVars, now, historyCut>>

\* a restore that asks the session-scoped store first
RestoreSessionFirst(local, session) ==
  LET storedUser == OrElse(session, local) IN
  IF IsSome(storedUser) /\ ~ParseThrows(Get(storedUser))
    THEN JSONparse(Get(storedUser))
    ELSE Null

\* the mount effect of App: localStorage.getItem(...) || sessionStorage.getItem(...),
\* then JSON.parse inside try/catch
Restore(local, session) ==
  LET storedUser == OrElse(local, session) IN
  IF IsSome(storedUser) /\ ~ParseThrows(Get(storedUser))
    THEN JSONparse(Get(storedUser))
    ELSE Null

\* the page is loaded again, in the same browser session or in a new one:
\* every component state starts over, timers and calls are gone, the
\* session-scoped store survives only within the session
Reload ==
  \E newSession \in BOOLEAN :
    /\ sessionStore' = IF newSession THEN Null ELSE sessionStore
    /\ user' = Restore(localStore, sessionStore')
    /\ result' = Null /\ isAnalyzing' = FALSE /\ error' = Null
    /\ history' = <<>> /\ analyzeCalls' = <<>> /\ nextRef' = 1
    /\ messages' = << Message("model", GreetingText(Null)) >>
    /\ isLoading' = FALSE /\ chatCalls' = <<>>
    /\ isLoginOpen' = FALSE /\ isLogin' = TRUE /\ loading' = FALSE
    /\ rememberMe' = TRUE /\ formData' = InitialFormData
    /\ loginError' = Null /\ googleCallback' = Null /\ loginTimers' = <<>>
    /\ lastOp' = Op("reload", <<>>, newSession)
    /\ historyCut' = FALSE
    /\ UNCHANGED <<localStore, now>>

\* the sign-in state and the two stores
AuthNext ==
  \/ Tick
  \/ OpenLogin
  \/ CloseLogin
  \/ ToggleMode
  \/ ToggleRemember
  \/ EditForm
  \/ handleSubmit
  \/ LoginTimerFires
  \/ handleGoogleResponse
  \/ handleLogout
  \/ Reload

SpecAuth == Init /\ [][AuthNext]_vars

\* something other than this page (the user, another script of the origin)
\* leaves a text under securelens_user that JSON.parse throws on: the case
\* the try/catch of the mount effect is written for
StorageEdited ==
  /\ \/ localStore' = Some(BrokenText) /\ UNCHANGED sessionStore
     \/ sessionStore' = Some(BrokenText) /\ UNCHANGED localStore
  /\ lastOp' = Op("storageEdited", <<>>, TRUE)
  /\ UNCHANGED <<user, isLoginOpen, isLogin, loading, rememberMe, formData,
                 loginError, googleCallback, loginTimers, appVars, chatVars,
                 now, historyCut>>

\* federated sign-in, logout and reload over stores that can hold a broken
\* text
StorageNext ==
  \/ OpenLogin
  \/ CloseLogin
  \/ ToggleRemember
  \/ handleGoogleResponse
  \/ handleLogout
  \/ Reload
  \/ StorageEdited

SpecStorage == Init /\ [][StorageNext]_vars

\* the promise of analyzeContent settles
AnalyzeCallReturns == AnalyzeFulfilled \/ AnalyzeRejected

\* the three surfaces side by side, each with its way in, its failure and
\* its way out
InteractiveNext ==
  \/ SubmitAnalyzerForm
  \/ AnalyzeFulfilled
  \/ AnalyzeRejected
  \/ handleSend
  \/ ChatFulfilled
  \/ ChatRejected
  \/ OpenLogin
  \/ EditForm
  \/ handleSubmit
  \/ LoginTimerFires
  \/ handleGoogleResponse

\* every gateway call returns and every timer of the sign-in form fires
SpecInteractiveFair ==
  /\ Init
  /\ [][InteractiveNext]_vars
  /\ WF_vars(AnalyzeCallReturns)
  /\ WF_vars(ChatCallReturns)
  /\ WF_vars(LoginTimerFires)

\* every operation of the three surfaces
Next == AnalysisNext \/ ChatNext \/ FeedbackNext \/ AuthNext \/ StorageNext

Spec == Init /\ [][Next]_vars


\* ================================================================= claims
IsBlank(t) == \A i \in 1..Len(t) : IsSpace(t[i])

\* C1: as long as no delete or clear has run, the history holds one item per
\* successful analysis, the newest first (each item's result is a later
\* object than the results of the items behind it, and no timestamp is
\* smaller than one behind it), and right after a success the first item's
\* result is the current result.
C1_HistoryTracksSuccesses ==
  /\ ~historyCut =>
       /\ Len(history) = nextRef - 1
       /\ \A i, j \in 1..Len(history) :
            i < j => /\ history[i].result.ref > history[j].result.ref
                     /\ history[i].timestamp >= history[j].timestamp
  /\ lastOp.op = "analyzeFulfilled" =>
       /\ Len(history) >= 1
       /\ IsSome(result)
       /\ history[1].result = Get(result)

C1_Witness ==
  /\ ~historyCut
  /\ lastOp.op = "analyzeFulfilled"
  /\ Len(history) = 2
  /\ history[1].result = Get(result)

\* C2: at most one analyzeContent call is outstanding, and a submission made
\* while one is in flight changes nothing of the analysis session (no second
\* call, nothing queued).
C2_OneAnalysisInFlight ==
  [][ /\ Len(analyzeCalls') <= 1
      /\ (isAnalyzing /\ lastOp'.op = "handleAnalyze")
           => UNCHANGED <<analyzeCalls, isAnalyzing, result, history, error>>
    ]_vars

C2_Witness ==
  /\ lastOp = Op("handleAnalyze", <<>>, FALSE)
  /\ isAnalyzing
  /\ Len(analyzeCalls) = 1

\* C3: at most one chat gateway call is outstanding, and a send made while a
\* reply is in flight appends no turn and starts no call.
C3_OneChatInFlight ==
  [][ /\ Len(chatCalls') <= 1
      /\ (isLoading /\ lastOp'.op = "handleSend")
           => UNCHANGED <<messages, chatCalls, isLoading>>
    ]_vars

C3_Witness ==
  /\ lastOp.op = "handleSend"
  /\ ~lastOp.ok
  /\ ~IsBlank(lastOp.arg)
  /\ isLoading
  /\ Len(chatCalls) = 1

\* C4: no two entries of the history have the same id.
C4_HistoryIdsUnique ==
  \A i, j \in 1..Len(history) : i # j => history[i].id # history[j].id

\* C5: deleteHistoryItem(id) removes exactly one item, the one with that id,
\* and keeps the others in their order; with no such item the history stays
\* as it is.
C5_DeleteRemovesExactlyOne ==
  [][ lastOp'.op = "deleteHistoryItem" =>
        LET id == lastOp'.arg[1] IN
        IF \E i \in 1..Len(history) : history[i].id = id
          THEN \E i \in 1..Len(history) :
                 /\ history[i].id = id
                 /\ history' = RemoveAt(history, i)
          ELSE history' = history
    ]_vars

\* C6: every change of the current result, to or from none included and with
\* a reply in flight or not, leaves exactly one turn: a model turn with the
\* generic greeting when there is no result, else with the summary naming the
\* result's risk level and its number of red flags.
C6_ResultChangeResetsTurns ==
  [][ result' # result =>
        /\ Len(messages') = 1
        /\ messages'[1].role = "model"
        /\ IF result' = Null
             THEN messages'[1].text = GenericGreeting
             ELSE /\ messages'[1].text # GenericGreeting
                  /\ messages'[1].text[2] = result'[1].riskLevel
                  /\ messages'[1].text[4] = ToString(Len(result'[1].redFlags))
    ]_vars

C6_Witness ==
  /\ lastOp.op \in {"resetAnalysis", "loadHistoryItem", "analyzeFulfilled"}
  /\ isLoading
  /\ Len(chatCalls) = 1
  /\ chatCalls[1].context # result
  /\ Len(chatCalls[1].history) > 1
  /\ Len(messages) = 1

\* C7: an accepted send appends exactly the user's trimmed turn, while its
\* call is outstanding the roles and texts of the turns change only when the
\* current result changes, and the failure of the call appends exactly one
\* model turn with the fixed rephrase text, taking nothing back; the failure
\* sets no error, ends the in-flight state and starts no further call.
C7_ChatFailureAddsFallback ==
  [][ /\ (lastOp'.op = "handleSend" /\ lastOp'.ok) =>
           /\ Len(messages') = Len(messages) + 1
           /\ SubSeq(messages', 1, Len(messages)) = messages
           /\ messages'[Len(messages')].role = "user"
           /\ messages'[Len(messages')].text = Trim(lastOp'.arg)
      /\ (isLoading /\ isLoading' /\ result' = result) =>
           ConversationHistory(messages') = ConversationHistory(messages)
      /\ lastOp'.op = "chatRejected" =>
           /\ Len(messages') = Len(messages) + 1
           /\ SubSeq(messages', 1, Len(messages)) = messages
           /\ messages'[Len(messages')].role = "model"
           /\ messages'[Len(messages')].text = FallbackText
           /\ error' = error
           /\ ~isLoading'
           /\ Len(chatCalls') = Len(chatCalls) - 1
    ]_vars

C7_Witness ==
  /\ lastOp.op = "chatRejected"
  /\ Len(messages) = 3
  /\ messages[2].role = "user"
  /\ messages[3] = Message("model", FallbackText)
  /\ error = Null
  /\ ~isLoading

\* C8: the failure of the analysis gateway call leaves the current result and
\* the history as they were, puts the generic retry message in the error
\* slot, ends the in-flight state and leaves no call outstanding.
C8_AnalysisFailureStoresNothing ==
  [][ lastOp'.op = "analyzeRejected" =>
        /\ result' = result
        /\ history' = history
        /\ error' = Some(AnalysisFailedText)
        /\ ~isAnalyzing'
        /\ analyzeCalls' = <<>>
    ]_vars

C8_Witness ==
  /\ lastOp.op = "analyzeRejected"
  /\ IsSome(result)
  /\ Len(history) >= 1
  /\ error = Some(AnalysisFailedText)

\* C9: a send whose text is empty or only whitespace appends no turn, does
\* not set the in-flight flag and starts no gateway call.
C9_BlankSendIgnored ==
  [][ (lastOp'.op = "handleSend" /\ IsBlank(lastOp'.arg))
        => UNCHANGED <<messages, isLoading, chatCalls>>
    ]_vars

C9_Witness ==
  /\ lastOp = Op("handleSend", <<" ">>, FALSE)
  /\ ~isLoading
  /\ chatCalls = <<>>

\* C10: at most one of the durable and the session-scoped store holds a
\* profile.
C10_OneStoreAtMost == ~(IsSome(localStore) /\ IsSome(sessionStore))

NoProfileAnywhere == [user |-> Null, local |-> Null, session |-> Null]

\* C11: after a logout the current profile is unset and neither store holds
\* the securelens_user key, whatever the three held before; a second logout
\* gives the same state as the first.
C11_LogoutClearsEverything ==
  LET once  == LogoutEffect(user, localStore, sessionStore)
      twice == LogoutEffect(once.user, once.local, once.session) IN
  /\ once = NoProfileAnywhere
  /\ twice = once
  /\ lastOp.op = "handleLogout" =>
       user = Null /\ localStore = Null /\ sessionStore = Null

\* a logout has just happened and left nothing behind
C11_Witness ==
  /\ lastOp.op = "handleLogout"
  /\ user = Null /\ localStore = Null /\ sessionStore = Null

C13_RememberDecidesTheStore ==
  (lastOp.op \in {"loginTimer", "handleGoogleResponse"} /\ lastOp.ok) =>
     IF lastOp.arg[Len(lastOp.arg)] = "session"
       THEN /\ sessionStore = Some(JSONstringify(Get(user)))
            /\ localStore = Null
       ELSE /\ localStore = Some(JSONstringify(Get(user)))
            /\ sessionStore = Null

Chosen(msg, type)   == IF type = "like" THEN msg.liked ELSE msg.disliked
Opposite(msg, type) == IF type = "like" THEN msg.disliked ELSE msg.liked
Unset(msg)          == ~Truthy(msg.liked) /\ ~Truthy(msg.disliked)
SameFeedback(a, b)  ==
  /\ Truthy(a.liked) = Truthy(b.liked)
  /\ Truthy(a.disliked) = Truthy(b.disliked)

\* C14: a feedback step changes one turn only; on that turn the chosen flag
\* is inverted and the opposite flag ends up off, role and text stay; from
\* the unset state the same feedback twice in a row gives the unset state
\* again; no turn is ever both liked and disliked.
C14_FeedbackTogglesExclusively ==
  [][ /\ \A j \in 1..Len(messages') :
           ~(Truthy(messages'[j].liked) /\ Truthy(messages'[j].disliked))
      /\ lastOp'.op = "handleFeedback" =>
           LET type == lastOp'.arg[1] IN
           /\ Len(messages') = Len(messages)
           /\ \E i \in 1..Len(messages) :
                /\ \A j \in 1..Len(messages) : j # i => messages'[j] = messages[j]
                /\ messages'[i].role = messages[i].role
                /\ messages'[i].text = messages[i].text
                /\ Truthy(Chosen(messages'[i], type)) = ~Truthy(Chosen(messages[i], type))
                /\ ~Truthy(Opposite(messages'[i], type))
                /\ Unset(messages[i]) =>
                     Unset(Feedback(messages'[i], type)) ]_vars

\* a like has just replaced a dislike on a reply, next to a greeting that
\* keeps its own dislike
C14_Witness ==
  /\ lastOp = Op("handleFeedback", <<"like">>, TRUE)
  /\ Len(messages) >= 3
  /\ Truthy(messages[1].disliked)
  /\ Truthy(messages[3].liked)
  /\ messages[3].disliked = "false"

\* C15 as stated: on every turn, the same feedback twice leaves what the same
\* feedback once leaves.
C15_FeedbackIdempotent ==
  \A i \in 1..Len(messages), type \in FeedbackTypes :
    SameFeedback(Feedback(Feedback(messages[i], type), type),
                 Feedback(messages[i], type))

\* C15: on every turn, the second of two identical feedbacks takes the first
\* one back: the chosen flag is as it was before the two, the opposite flag
\* is off, and the outcome differs from the outcome of one feedback; three
\* identical feedbacks leave what one leaves.
C15_SecondFeedbackUndoesFirst ==
  \A i \in 1..Len(messages), type \in FeedbackTypes :
    LET once   == Feedback(messages[i], type)
        twice  == Feedback(once, type)
        thrice == Feedback(twice, type) IN
    /\ Truthy(Chosen(twice, type)) = Truthy(Chosen(messages[i], type))
    /\ ~Truthy(Opposite(twice, type))
    /\ ~SameFeedback(twice, once)
    /\ SameFeedback(thrice, once)

\* a reply carries both flags false, which only two identical feedbacks in a
\* row leave behind
C15_Witness ==
  /\ lastOp.op = "handleFeedback"
  /\ \E i \in 1..Len(messages) :
       /\ i > 1
       /\ messages[i].liked = "false"
       /\ messages[i].disliked = "false"

\* C16: a reset leaves no current result and no error, and leaves the
\* history, items and order, and the signed-in user as they were.
C16_ResetKeepsHistory ==
  [][ lastOp'.op = "resetAnalysis" =>
        /\ result' = Null
        /\ error' = Null
        /\ history' = history
        /\ user' = user ]_vars

\* a reset has closed a report and the error slot, with two reports in the
\* history
C16_Witness ==
  /\ lastOp.op = "resetAnalysis"
  /\ result = Null /\ error = Null
  /\ Len(history) = 2

\* C17: deleting a history item and clearing the history start no gateway
\* call and leave the current result, the error slot and the in-flight flag
\* as they were; after a clear the history is empty.
C17_HistoryEditsAreLocal ==
  [][ lastOp'.op \in {"deleteHistoryItem", "clearHistory"} =>
        /\ analyzeCalls' = analyzeCalls
        /\ chatCalls' = chatCalls
        /\ result' = result
        /\ error' = error
        /\ isAnalyzing' = isAnalyzing
        /\ lastOp'.op = "clearHistory" => history' = <<>> ]_vars

\* the history has just been emptied under a displayed report
C17_Witness ==
  /\ lastOp.op \in {"deleteHistoryItem", "clearHistory"}
  /\ IsSome(result)
  /\ history = <<>>
  /\ historyCut

\* C18: an accepted send adds exactly one gateway call, made of the turns as
\* they were before the send (role and text of each, in order), the text of
\* the send without its leading and trailing white space, and the result
\* current at that moment; nothing else adds a gateway call.
C18_SendCallsGatewayOnce ==
  [][ /\ Len(chatCalls') > Len(chatCalls) => lastOp'.op = "handleSend" /\ lastOp'.ok
      /\ (lastOp'.op = "handleSend" /\ lastOp'.ok) =>
           /\ Len(chatCalls') = Len(chatCalls) + 1
           /\ SubSeq(chatCalls', 1, Len(chatCalls)) = chatCalls
           /\ LET call == chatCalls'[Len(chatCalls')]
                  sent == lastOp'.arg IN
              /\ Len(call.history) = Len(messages)
              /\ \A i \in 1..Len(messages) :
                   /\ call.history[i].role = messages[i].role
                   /\ call.history[i].text = messages[i].text
              /\ call.text # <<>>
              /\ ~IsSpace(Head(call.text))
              /\ ~IsSpace(call.text[Len(call.text)])
              /\ \E a \in 0..Len(sent), b \in 0..Len(sent) :
                   /\ a + Len(call.text) + b = Len(sent)
                   /\ SubSeq(sent, a + 1, a + Len(call.text)) = call.text
                   /\ \A k \in (1..a) \cup ((Len(sent) - b + 1)..Len(sent)) :
                        IsSpace(sent[k])
              /\ call.context = result ]_vars

\* the second question of a conversation about a report was sent with white
\* space around it
C18_Witness ==
  /\ lastOp = Op("handleSend", <<"\t", "q", " ">>, TRUE)
  /\ IsSome(result)
  /\ Len(chatCalls) = 1
  /\ Len(chatCalls[1].history) = 3
  /\ chatCalls[1].text = <<"q">>
  /\ chatCalls[1].context = result

StoresAndUserUnchanged ==
  /\ localStore' = localStore
  /\ sessionStore' = sessionStore
  /\ user' = user

\* C19: a sign-up submission whose email differs from its confirmation sets
\* the inline error, leaves the loading flag false, starts no sign-in delay,
\* writes neither store and signs nobody in; every other submission, one
\* after such an error included, clears the error, raises the loading flag
\* and starts one sign-in delay for the email of the form.
C19_MismatchBlocksSubmission ==
  [][ lastOp'.op = "handleSubmit" =>
        IF ~isLogin /\ formData.email # formData.confirmEmail
          THEN /\ loginError' = Some("Emails do not match.")
               /\ ~loading /\ ~loading'
               /\ loginTimers' = loginTimers
               /\ StoresAndUserUnchanged
          ELSE /\ loginError' = Null
               /\ loading'
               /\ Len(loginTimers') = Len(loginTimers) + 1
               /\ loginTimers'[Len(loginTimers')].email = formData.email
               /\ StoresAndUserUnchanged ]_vars

\* a sign-up submission has just been blocked
C19_Witness ==
  /\ lastOp = Op("handleSubmit", <<>>, FALSE)
  /\ ~isLogin
  /\ formData.email # formData.confirmEmail
  /\ loginError = Some("Emails do not match.")
  /\ ~loading
  /\ loginTimers = <<>>
  /\ user = Null

MalformedKinds == {"nosegment", "badbase64", "badjson"}

\* C20 as stated: a federated sign-in with a malformed credential writes
\* neither store, leaves the current user, lowers the loading flag and shows
\* no error.
C20_MalformedCredentialSilent ==
  [][ (lastOp'.op = "handleGoogleResponse" /\ lastOp'.arg[1] \in MalformedKinds) =>
        /\ StoresAndUserUnchanged
        /\ ~loading'
        /\ loginError' = Null ]_vars

\* C20: a federated sign-in with a malformed credential (no second segment,
\* bad base64, bad JSON) writes neither store, leaves the current user,
\* lowers the loading flag, keeps the modal open and shows the inline error
\* "Google authentication failed. Please try again."
C20_MalformedCredentialShowsError ==
  [][ (lastOp'.op = "handleGoogleResponse" /\ lastOp'.arg[1] \in MalformedKinds) =>
        /\ StoresAndUserUnchanged
        /\ ~loading'
        /\ isLoginOpen'
        /\ loginError' = Some("Google authentication failed. Please try again.") ]_vars

\* a token without a second segment has just been refused while a password
\* sign-in was waiting
C20_Witness ==
  /\ lastOp.op = "handleGoogleResponse"
  /\ lastOp.arg = <<"nosegment">>
  /\ user = Null /\ localStore = Null /\ sessionStore = Null
  /\ ~loading
  /\ Len(loginTimers) = 1
  /\ loginError = Some("Google authentication failed. Please try again.")

LastTurn == messages[Len(messages)]

\* C21: whenever no chat reply is awaited the last turn is a model turn, and
\* an accepted send leads to a step in which the gateway call returns and
\* leaves a model turn last with nothing awaited.
C21_NeverLeftMidTurn ==
  /\ [](~isLoading => LastTurn.role = "model")
  /\ (lastOp.op = "handleSend" /\ lastOp.ok) ~>
       (/\ lastOp.op \in {"chatFulfilled", "chatRejected"}
        /\ ~isLoading
        /\ LastTurn.role = "model")

\* a gateway failure has been answered with the fallback turn, after the
\* result on display had changed under the waiting call
C21_Witness ==
  /\ lastOp.op = "chatRejected"
  /\ ~isLoading
  /\ LastTurn = Message("model", FallbackText)
  /\ Len(messages) = 2

\* C22: on both surfaces the gateway call that is answered is the oldest one
\* waiting, so answers are applied in the order of their requests; when an
\* analysis succeeds no other analysis is waiting, and the current result is
\* the answer to the request sent last, the one its history item is made from.
C22_ResponsesInSendOrder ==
  [][ /\ Len(analyzeCalls') < Len(analyzeCalls) => analyzeCalls' = Tail(analyzeCalls)
      /\ Len(chatCalls') < Len(chatCalls) => chatCalls' = Tail(chatCalls)
      /\ lastOp'.op = "analyzeFulfilled" =>
           /\ analyzeCalls' = <<>>
           /\ history'[1].snippet = Snippet(analyzeCalls[Len(analyzeCalls)].text)
           /\ result' = Some(history'[1].result) ]_vars

\* the answer to the second analysis has been applied after the answer to
\* the first, and a chat reply after its question
C22_Witness ==
  /\ lastOp.op = "analyzeFulfilled"
  /\ analyzeCalls = <<>>
  /\ Len(history) = 2
  /\ history[1].result.ref = 2 /\ history[2].result.ref = 1
  /\ result = Some(history[1].result)

\* C23: when every gateway call returns and every sign-in timer fires, each
\* of the three busy flags (analysis, chat, sign-in) that is set becomes
\* false again, which is when the form it guards takes a submission.
C23_FlagsComeDown ==
  /\ isAnalyzing ~> (~isAnalyzing /\ AnalyzerFormEnabled)
  /\ isLoading ~> ~isLoading
  /\ loading ~> ~loading

\* the analysis has just failed, after a chat failure and a refused Google
\* credential, and nothing is busy
C23_Witness ==
  /\ lastOp.op = "analyzeRejected"
  /\ error = Some(AnalysisFailedText)
  /\ LastTurn = Message("model", FallbackText)
  /\ loginError = Some("Google authentication failed. Please try again.")
  /\ ~isAnalyzing /\ ~isLoading /\ ~loading

\* C24: the turns start with a model greeting and then alternate user turn,
\* model turn.
C24_TurnsAlternate ==
  /\ messages[1].role = "model"
  /\ \A i \in 2..Len(messages) :
       messages[i].role = IF i % 2 = 0 THEN "user" ELSE "model"

\* C25: a step that adds the model turn of a gateway call, reply or fallback,
\* happens only while the current result is the one the call was sent with.
C25_ReplyJoinsItsOwnContext ==
  [][ lastOp'.op \in {"chatFulfilled", "chatRejected"} =>
        \E i \in 1..Len(chatCalls) :
          /\ chatCalls' = RemoveAt(chatCalls, i)
          /\ chatCalls[i].context = result ]_vars

\* C26: a sign-in timer that fires in the step right after a logout belongs
\* to a form submitted before that logout; it sets no user and writes no
\* store.
C26_LogoutOutlivesPendingSignIn ==
  [][ (lastOp.op = "handleLogout" /\ lastOp'.op = "loginTimer") =>
        /\ user' = Null
        /\ localStore' = Null
        /\ sessionStore' = Null ]_vars

====
